---------------------------- MODULE Spec2Model ----------------------------
(***************************************************************************)
(* Lint report aggregator: analyze-lint.py (flat shape, script 1) and      *)
(* analyze-lint2.py (block shape, script 2).  Text is modelled as          *)
(* sequences of one-character strings so that the regular expressions,     *)
(* str.strip, str.split and Path.parts act on characters as in Python.     *)
(***************************************************************************)
EXTENDS Integers, Sequences, FiniteSets, TLC

\* ---------------------------------------------------------------- bounds
\* lines the lint process may write to stdout
MaxOut == 1
\* lines the lint process may write to stderr (free-form output)
MaxErr == 3
\* files of a well-formed multi-file lint run
MaxFiles == 7
\* findings of a heavy file in a well-formed multi-file lint run (the others: 1)
MaxPerFile == 2
\* heavy files in a well-formed multi-file lint run
MaxHeavy == 2

\* ------------------------------------------------------ string constants
\* "src"
SRC ==
    <<"s", "r", "c">>

\* "error"
ERROR ==
    <<"e", "r", "r", "o", "r">>

\* "warning"
WARNING ==
    <<"w", "a", "r", "n", "i", "n", "g">>

\* "react-hooks"
REACT_HOOKS ==
    <<"r", "e", "a", "c", "t", "-", "h", "o", "o", "k", "s">>

\* "@typescript-eslint/no-explicit-any"
RULE_ANY ==
    <<"@", "t", "y", "p", "e", "s", "c", "r", "i", "p", "t", "-", "e", "s", "l", "i", "n", "t",
       "/", "n", "o", "-", "e", "x", "p", "l", "i", "c", "i", "t", "-", "a", "n", "y">>

\* "@typescript-eslint/no-unused-vars"
RULE_UNUSED ==
    <<"@", "t", "y", "p", "e", "s", "c", "r", "i", "p", "t", "-", "e", "s", "l", "i", "n", "t",
       "/", "n", "o", "-", "u", "n", "u", "s", "e", "d", "-", "v", "a", "r", "s">>

\* "@typescript-eslint/no-empty-object-type"
RULE_EMPTY ==
    <<"@", "t", "y", "p", "e", "s", "c", "r", "i", "p", "t", "-", "e", "s", "l", "i", "n", "t",
       "/", "n", "o", "-", "e", "m", "p", "t", "y", "-", "o", "b", "j", "e", "c", "t", "-", "t",
       "y", "p", "e">>

\* "react-refresh/only-export-components"
RULE_REFRESH ==
    <<"r", "e", "a", "c", "t", "-", "r", "e", "f", "r", "e", "s", "h", "/", "o", "n", "l", "y",
       "-", "e", "x", "p", "o", "r", "t", "-", "c", "o", "m", "p", "o", "n", "e", "n", "t", "s">>

\* "react-hooks/exhaustive-deps"
RULE_HOOKS ==
    <<"r", "e", "a", "c", "t", "-", "h", "o", "o", "k", "s", "/", "e", "x", "h", "a", "u", "s",
       "t", "i", "v", "e", "-", "d", "e", "p", "s">>

\* "components"
D_components ==
    <<"c", "o", "m", "p", "o", "n", "e", "n", "t", "s">>

\* "lib"
D_lib ==
    <<"l", "i", "b">>

\* "pages"
D_pages ==
    <<"p", "a", "g", "e", "s">>

\* "utils"
D_utils ==
    <<"u", "t", "i", "l", "s">>

\* "hooks"
D_hooks ==
    <<"h", "o", "o", "k", "s">>

\* "auth"
D_auth ==
    <<"a", "u", "t", "h">>

\* "api"
D_api ==
    <<"a", "p", "i">>

\* "/a/b/src/components/Foo.tsx"
P_FOO ==
    <<"/", "a", "/", "b", "/", "s", "r", "c", "/", "c", "o", "m", "p", "o", "n", "e", "n", "t",
       "s", "/", "F", "o", "o", ".", "t", "s", "x">>

\* "/a/lib/x.ts"
P_NOSRC ==
    <<"/", "a", "/", "l", "i", "b", "/", "x", ".", "t", "s">>

\* "/a/src"
P_SRCLAST ==
    <<"/", "a", "/", "s", "r", "c">>

\* "/a/src/x/src"
P_SRCX ==
    <<"/", "a", "/", "s", "r", "c", "/", "x", "/", "s", "r", "c">>

\* "/a/src/"
P_FILES ==
    <<"/", "a", "/", "s", "r", "c", "/">>

\* "Unexpected any. Specify a different type"
M_ANY ==
    <<"U", "n", "e", "x", "p", "e", "c", "t", "e", "d", " ", "a", "n", "y", ".", " ", "S", "p",
       "e", "c", "i", "f", "y", " ", "a", " ", "d", "i", "f", "f", "e", "r", "e", "n", "t", " ",
       "t", "y", "p", "e">>

\* "Unused x"
M_UNUSED ==
    <<"U", "n", "u", "s", "e", "d", " ", "x">>

\* "Hook useMemo has a missing dependency"
M_HOOK ==
    <<"H", "o", "o", "k", " ", "u", "s", "e", "M", "e", "m", "o", " ", "h", "a", "s", " ", "a",
       " ", "m", "i", "s", "s", "i", "n", "g", " ", "d", "e", "p", "e", "n", "d", "e", "n", "c",
       "y">>

\* "Hook has missing dependencies: 'a',"
M_WRAP1 ==
    <<"H", "o", "o", "k", " ", "h", "a", "s", " ", "m", "i", "s", "s", "i", "n", "g", " ", "d",
       "e", "p", "e", "n", "d", "e", "n", "c", "i", "e", "s", ":", " ", "'", "a", "'", ",">>

\* "  'b'. Either include them  @typescript-eslint/no-unused-vars"
L_CONT ==
    <<" ", " ", "'", "b", "'", ".", " ", "E", "i", "t", "h", "e", "r", " ", "i", "n", "c", "l",
       "u", "d", "e", " ", "t", "h", "e", "m", " ", " ", "@", "t", "y", "p", "e", "s", "c", "r",
       "i", "p", "t", "-", "e", "s", "l", "i", "n", "t", "/", "n", "o", "-", "u", "n", "u", "s",
       "e", "d", "-", "v", "a", "r", "s">>

\* ------------------------------------------------------ character classes
\* Python's \s restricted to the characters that occur in the inputs
Space == {" ", "\t"}

\* Python's \d
Digit == {"0", "1", "2", "3", "4", "5", "6", "7", "8", "9"}

Letter ==
    {"a", "b", "c", "d", "e", "f", "g", "h", "i", "j", "k", "l", "m",
     "n", "o", "p", "q", "r", "s", "t", "u", "v", "w", "x", "y", "z",
     "A", "B", "C", "D", "E", "F", "G", "H", "I", "J", "K", "L", "M",
     "N", "O", "P", "Q", "R", "S", "T", "U", "V", "W", "X", "Y", "Z"}

\* the class [\w-] of the rule pattern
WordHyphen == Letter \cup Digit \cup {"_", "-"}

\* ------------------------------------------------------------ text helpers
Max(S) == CHOOSE x \in S : \A y \in S : y <= x
Min(S) == CHOOSE x \in S : \A y \in S : x <= y

\* s[a..b] (1-based, inclusive); empty when b < a
Sub(s, a, b) == [k \in 1..(b - a + 1) |-> s[a + k - 1]]

\* end of the maximal run of characters of class C that starts at p (p-1: none)
RECURSIVE RunEnd(_, _, _)
RunEnd(s, p, C) ==
    IF p >= 1 /\ p <= Len(s) /\ s[p] \in C THEN RunEnd(s, p + 1, C) ELSE p - 1

\* end of the maximal run of non-whitespace characters that starts at p
RECURSIVE NonSpaceRunEnd(_, _)
NonSpaceRunEnd(s, p) ==
    IF p >= 1 /\ p <= Len(s) /\ s[p] \notin Space THEN NonSpaceRunEnd(s, p + 1) ELSE p - 1

\* literal t occurs in s at position p
LitAt(s, p, t) ==
    /\ p >= 1
    /\ p + Len(t) - 1 <= Len(s)
    /\ \A k \in 1..Len(t) : s[p + k - 1] = t[k]

\* str.strip()
strip(s) ==
    LET keep == {k \in 1..Len(s) : s[k] \notin Space}
    IN  IF keep = {} THEN << >> ELSE Sub(s, Min(keep), Max(keep))

\* str.startswith(t)
startswith(s, t) == LitAt(s, 1, t)

\* t in s (substring test on str)
contains(s, t) == \E p \in 1..(Len(s) - Len(t) + 1) : LitAt(s, p, t)

\* str.split(sep) for a one-character separator class: empty pieces are kept
RECURSIVE SplitAt(_, _)
SplitAt(s, C) ==
    LET hits == {k \in 1..Len(s) : s[k] \in C}
    IN  IF hits = {} THEN <<s>>
        ELSE LET k == Min(hits)
             IN  <<Sub(s, 1, k - 1)>> \o SplitAt(Sub(s, k + 1, Len(s)), C)

\* ---------------------------------------------------- insertion-ordered dict
\* a dict (and a defaultdict) is the sequence of its items, in insertion order
Keys(d) == {d[k][1] : k \in 1..Len(d)}

IndexOf(d, key) == CHOOSE k \in 1..Len(d) : d[k][1] = key

\* dict.get(key, default)
Get(d, key, default) == IF key \in Keys(d) THEN d[IndexOf(d, key)][2] ELSE default

\* d[key] = val: a new key goes to the end, an old key keeps its place
Put(d, key, val) ==
    IF key \in Keys(d)
    THEN [d EXCEPT ![IndexOf(d, key)] = <<key, val>>]
    ELSE Append(d, <<key, val>>)

\* ------------------------------------------------------------ the patterns
\* (@[\w-]+/[\w-]+)$ at position x
RuleAt(s, x) ==
    LET g == RunEnd(s, x + 1, WordHyphen)
        h == RunEnd(s, g + 2, WordHyphen)
    IN  /\ LitAt(s, x, <<"@">>)
        /\ g >= x + 1
        /\ LitAt(s, g + 1, <<"/">>)
        /\ h >= g + 2
        /\ h = Len(s)

\* \s+(@[\w-]+/[\w-]+)$ right after position e
TailMatch(s, e) ==
    LET x == RunEnd(s, e + 1, Space)
    IN  /\ x >= e + 1
        /\ RuleAt(s, x + 1)

\* (\d+):(\d+)\s+(error|warning) at position p: the end of the severity, 0 if none
SeverityEnd(s, p) ==
    LET d1 == RunEnd(s, p, Digit)
        d2 == RunEnd(s, d1 + 2, Digit)
        w2 == RunEnd(s, d2 + 1, Space)
    IN  IF /\ d1 >= p
           /\ LitAt(s, d1 + 1, <<":">>)
           /\ d2 >= d1 + 2
           /\ w2 >= d2 + 1
        THEN IF LitAt(s, w2 + 1, ERROR) THEN w2 + Len(ERROR)
             ELSE IF LitAt(s, w2 + 1, WARNING) THEN w2 + Len(WARNING)
             ELSE 0
        ELSE 0

\* the pattern with (\S+)$ in place of the rule: any last token is the rule
FindingAt_AnyRule(s, p) ==
    LET d1 == RunEnd(s, p, Digit)
        d2 == RunEnd(s, d1 + 2, Digit)
        w2 == RunEnd(s, d2 + 1, Space)
        v  == SeverityEnd(s, p)
        w3 == RunEnd(s, v + 1, Space)
        sp == {k \in (w3 + 1)..Len(s) : s[k] \in Space}
    IN  IF v > 0 /\ w3 >= v + 1 /\ sp # {} /\ Max(sp) < Len(s)
        THEN [ok |-> TRUE,
              line |-> Sub(s, p, d1),
              column |-> Sub(s, d1 + 2, d2),
              severity |-> Sub(s, w2 + 1, v),
              message |-> Sub(s, w3 + 1, Max({k \in (w3 + 1)..Max(sp) : s[k] \notin Space})),
              rule |-> Sub(s, Max(sp) + 1, Len(s))]
        ELSE [ok |-> FALSE]

\* the pattern with a greedy message, (.+) in place of (.+?)
FindingAt_Greedy(s, p) ==
    LET d1 == RunEnd(s, p, Digit)
        d2 == RunEnd(s, d1 + 2, Digit)
        w2 == RunEnd(s, d2 + 1, Space)
        v  == SeverityEnd(s, p)
        w3 == RunEnd(s, v + 1, Space)
        cands == {c \in ((v + 1)..w3) \X (1..Len(s)) : c[2] > c[1] /\ TailMatch(s, c[2])}
    IN  IF v > 0 /\ w3 >= v + 1 /\ cands # {}
        THEN LET w == Max({c[1] : c \in cands})
                 e == Max({c[2] : c \in {b \in cands : b[1] = w}})
                 x == RunEnd(s, e + 1, Space) + 1
             IN  [ok |-> TRUE,
                  line |-> Sub(s, p, d1),
                  column |-> Sub(s, d1 + 2, d2),
                  severity |-> Sub(s, w2 + 1, v),
                  message |-> Sub(s, w + 1, e),
                  rule |-> Sub(s, x, Len(s))]
        ELSE [ok |-> FALSE]

\* (\d+):(\d+)\s+(error|warning)\s+(.+?)\s+(@[\w-]+/[\w-]+)$ at position p.
\* \s+ before the message is greedy (longest first), the message is lazy
\* (shortest first): the first match of the backtracking search.
FindingAt(s, p) ==
    LET d1 == RunEnd(s, p, Digit)
        d2 == RunEnd(s, d1 + 2, Digit)
        w2 == RunEnd(s, d2 + 1, Space)
        v  == SeverityEnd(s, p)
        w3 == RunEnd(s, v + 1, Space)
        cands == {c \in ((v + 1)..w3) \X (1..Len(s)) : c[2] > c[1] /\ TailMatch(s, c[2])}
    IN  IF v > 0 /\ w3 >= v + 1 /\ cands # {}
        THEN LET w == Max({c[1] : c \in cands})
                 e == Min({c[2] : c \in {b \in cands : b[1] = w}})
                 x == RunEnd(s, e + 1, Space) + 1
             IN  [ok |-> TRUE,
                  line |-> Sub(s, p, d1),
                  column |-> Sub(s, d1 + 2, d2),
                  severity |-> Sub(s, w2 + 1, v),
                  message |-> Sub(s, w + 1, e),
                  rule |-> Sub(s, x, Len(s))]
        ELSE [ok |-> FALSE]

\* re.match(error_pattern, s):
\* ^(/[^\s]+)\s+(\d+):(\d+)\s+(error|warning)\s+(.+?)\s+(@[\w-]+/[\w-]+)$
error_pattern(s) ==
    LET p1 == NonSpaceRunEnd(s, 2)
        w1 == RunEnd(s, p1 + 1, Space)
        f  == FindingAt(s, w1 + 1)
    IN  IF /\ LitAt(s, 1, <<"/">>)
           /\ p1 >= 2
           /\ w1 >= p1 + 1
           /\ f.ok
        THEN [ok |-> TRUE, file_path |-> Sub(s, 1, p1), line |-> f.line,
              column |-> f.column, severity |-> f.severity,
              message |-> f.message, rule |-> f.rule]
        ELSE [ok |-> FALSE]

\* re.match(r'^\s+\d+:\d+\s+(error|warning)', s)
finding_prefix(s) ==
    LET w0 == RunEnd(s, 1, Space)
    IN  w0 >= 1 /\ SeverityEnd(s, w0 + 1) > 0

\* re.match(r'^\s+(\d+):(\d+)\s+(error|warning)\s+(.+?)\s+(@[\w-]+/[\w-]+)$', s)
finding_pattern(s) ==
    LET w0 == RunEnd(s, 1, Space)
    IN  IF w0 >= 1 THEN FindingAt(s, w0 + 1) ELSE [ok |-> FALSE]

\* the dict stored for one finding
Finding(m) ==
    [line |-> m.line, column |-> m.column, severity |-> m.severity,
     message |-> m.message, rule |-> m.rule]

\* ------------------------------------------------------------ Path(...).parts
IsSegment(seg) == seg # << >> /\ seg # <<".">>

\* pathlib on POSIX: the root, then the segments; empty and "." segments vanish
PathParts(s) ==
    LET root == IF startswith(s, <<"/", "/">>) /\ ~startswith(s, <<"/", "/", "/">>)
                THEN << <<"/", "/">> >>
                ELSE IF startswith(s, <<"/">>) THEN << <<"/">> >> ELSE << >>
    IN  root \o SelectSeq(SplitAt(s, {"/"}), IsSegment)

\* the segment after the first 'src' segment, as <<key>>; << >> when there is none
DirectoryOf(file_path) ==
    LET path_parts == PathParts(file_path)
        hits == {k \in 1..Len(path_parts) : path_parts[k] = SRC}
    IN  IF hits # {} /\ Min(hits) + 1 <= Len(path_parts)
        THEN <<path_parts[Min(hits) + 1]>>
        ELSE << >>

\* Path(file_path).name
PathName(file_path) ==
    LET path_parts == PathParts(file_path)
    IN  IF Len(path_parts) >= 2 THEN path_parts[Len(path_parts)] ELSE << >>

\* ------------------------------------------------- one iteration of the loops
\* errors_by_type[rule] = 1 in place of += 1
CountByType_Assign(ebt, rule) == Put(ebt, rule, 1)

\* errors_by_type[rule] += 1
CountByType(ebt, rule) == Put(ebt, rule, Get(ebt, rule, 0) + 1)

\* errors_by_file[file].append({...})
StoreByFile(ebf, file, finding) == Put(ebf, file, Append(Get(ebf, file, << >>), finding))

\* the directory is taken to be the parent of the file, wherever 'src' is
CountByDirectory_Parent(ebd, file) ==
    LET path_parts == PathParts(file)
    IN  IF Len(path_parts) >= 3
        THEN Put(ebd, path_parts[Len(path_parts) - 1],
                 Get(ebd, path_parts[Len(path_parts) - 1], 0) + 1)
        ELSE ebd

\* errors_by_directory[directory] += 1, when 'src' has a segment after it
CountByDirectory(ebd, file) ==
    LET directory == DirectoryOf(file)
    IN  IF directory # << >>
        THEN Put(ebd, directory[1], Get(ebd, directory[1], 0) + 1)
        ELSE ebd

\* total_errors += 1 under severity == 'error'
CountErrors(n, severity) == IF severity = ERROR THEN n + 1 ELSE n

\* total_warnings += 1 in the else branch
CountWarnings(n, severity) == IF severity = ERROR THEN n ELSE n + 1

\* the test of the file-path branch of the block loop
IsFileLine(line) ==
    /\ line # << >>
    /\ startswith(line, <<"/">>)
    /\ ~startswith(line, <<" ">>)

\* the test of the finding branch of the block loop: current_file is truthy
\* and the line has the line:column severity prefix
IsFindingLine(cur, line) ==
    /\ cur # << >>
    /\ cur[1] # << >>
    /\ finding_prefix(line)

\* the cursor is set by the first file line only
NextCurrentFile_First(cur, line) ==
    IF IsFileLine(line) /\ cur = << >> THEN <<strip(line)>> ELSE cur

\* current_file after one line of the block loop (<< >> is None, <<p>> is p)
NextCurrentFile(cur, line) == IF IsFileLine(line) THEN <<strip(line)>> ELSE cur

\* ------------------------------------------------------------------ report
\* place x after every item whose count is >= x's: a stable descending insert
RECURSIVE InsertDesc(_, _)
InsertDesc(sorted, x) ==
    IF sorted = << >> THEN <<x>>
    ELSE IF Head(sorted)[2] >= x[2]
         THEN <<Head(sorted)>> \o InsertDesc(Tail(sorted), x)
         ELSE <<x>> \o sorted

\* place x before every item whose count is <= x's
RECURSIVE InsertDescFront(_, _)
InsertDescFront(sorted, x) ==
    IF sorted = << >> THEN <<x>>
    ELSE IF Head(sorted)[2] > x[2]
         THEN <<Head(sorted)>> \o InsertDescFront(Tail(sorted), x)
         ELSE <<x>> \o sorted

\* an ascending stable sort, reversed: descending, but ties come out reversed
RECURSIVE SortDesc_Reversed(_)
SortDesc_Reversed(items) ==
    IF items = << >> THEN << >>
    ELSE InsertDescFront(SortDesc_Reversed(SubSeq(items, 1, Len(items) - 1)), items[Len(items)])

\* sorted(items, key=lambda x: x[1], reverse=True): descending, ties keep their order
RECURSIVE SortDesc(_)
SortDesc(items) ==
    IF items = << >> THEN << >>
    ELSE InsertDesc(SortDesc(SubSeq(items, 1, Len(items) - 1)), items[Len(items)])

\* seq[:n]
Take(seq, n) == SubSeq(seq, 1, IF Len(seq) < n THEN Len(seq) ELSE n)

\* ranks printed under TOP ERROR TYPES: 10 in analyze-lint, 5 in analyze-lint2
TopK(s) == IF s = 1 THEN 10 ELSE 5

\* files shown per directory
TopFiles == 5

\* the directories of the per-directory section, in print order
AllowList(s) ==
    IF s = 1
    THEN <<D_components, D_lib, D_pages, D_utils, D_hooks>>
    ELSE <<D_components, D_lib, D_pages, D_utils, D_hooks, D_auth>>

\* file_groups with every file counted once, whatever len(errors) is
RECURSIVE FileGroups_Once(_)
FileGroups_Once(ebf) ==
    IF ebf = << >> THEN << >>
    ELSE LET rest == FileGroups_Once(SubSeq(ebf, 1, Len(ebf) - 1))
             item == ebf[Len(ebf)]
             directory == DirectoryOf(item[1])
         IN  IF directory # << >>
             THEN Put(rest, directory[1],
                      Append(Get(rest, directory[1], << >>), <<item[1], 1>>))
             ELSE rest

\* file_groups: directory -> [(file_path, len(errors))], in errors_by_file order
RECURSIVE FileGroups(_)
FileGroups(ebf) ==
    IF ebf = << >> THEN << >>
    ELSE LET rest == FileGroups(SubSeq(ebf, 1, Len(ebf) - 1))
             item == ebf[Len(ebf)]
             directory == DirectoryOf(item[1])
         IN  IF directory # << >>
             THEN Put(rest, directory[1],
                      Append(Get(rest, directory[1], << >>), <<item[1], Len(item[2])>>))
             ELSE rest

\* the rows taken as file_groups[directory][:5], without the sort
RECURSIVE ShownGroups_Unsorted(_, _)
ShownGroups_Unsorted(allow, fg) ==
    IF allow = << >> THEN << >>
    ELSE (IF Head(allow) \in Keys(fg)
          THEN << <<Head(allow), Take(Get(fg, Head(allow), << >>), 5)>> >>
          ELSE << >>)
         \o ShownGroups_Unsorted(Tail(allow), fg)

\* the rows printed under FILE GROUPS WITH MOST ERRORS: for each directory of
\* the allow-list that is in file_groups, its files[:5] by descending count
RECURSIVE ShownGroups(_, _)
ShownGroups(allow, fg) ==
    IF allow = << >> THEN << >>
    ELSE LET directory == Head(allow)
         IN  (IF directory \in Keys(fg)
              THEN << <<directory, Take(SortDesc(Get(fg, directory, << >>)), TopFiles)>> >>
              ELSE << >>)
             \o ShownGroups(Tail(allow), fg)

\* sum(count for rule, count in errors_by_type.items() if 'react-hooks' in rule)
RECURSIVE HooksTotal(_)
HooksTotal(ebt) ==
    IF ebt = << >> THEN 0
    ELSE (IF contains(Head(ebt)[1], REACT_HOOKS) THEN Head(ebt)[2] ELSE 0)
         + HooksTotal(Tail(ebt))

\* the five totals of SUGGESTED GROUPING FOR PARALLEL FIXING
FixGroups(ebt) ==
    [any_errors |-> Get(ebt, RULE_ANY, 0),
     unused_vars |-> Get(ebt, RULE_UNUSED, 0),
     react_hooks_total |-> HooksTotal(ebt),
     react_refresh |-> Get(ebt, RULE_REFRESH, 0),
     empty_interface |-> Get(ebt, RULE_EMPTY, 0)]

\* ------------------------------------------------------ lint process output
\* the text of a stream that wrote the given lines, each ended by a newline
RECURSIVE Text(_)
Text(ls) == IF ls = << >> THEN << >> ELSE Head(ls) \o <<"\n">> \o Text(Tail(ls))

SeqsUpTo(S, n) == UNION {[1..k -> S] : k \in 0..n}

\* a flat-shape line: path, whitespace, line:column, severity, message, rule
FlatLine(r) ==
    r.file_path \o <<" ">> \o r.line \o <<":">> \o r.column \o <<" ", " ">>
    \o r.severity \o <<" ", " ">> \o r.message \o <<" ", " ">> \o r.rule

\* a finding line of the block shape: indented line:column, severity, message, rule
BlockLine(r) ==
    <<" ", " ">> \o r.line \o <<":">> \o r.column \o <<" ", " ">>
    \o r.severity \o <<" ", " ">> \o r.message \o <<" ", " ">> \o r.rule

Rec(file_path, line, column, severity, message, rule) ==
    [file_path |-> file_path, line |-> line, column |-> column,
     severity |-> severity, message |-> message, rule |-> rule]

\* findings a linter reports with a rule of the form @scope/rule-name
ScopedRecs ==
    {Rec(P_FOO, <<"1", "2">>, <<"3">>, ERROR, M_ANY, RULE_ANY),
     Rec(P_NOSRC, <<"7">>, <<"1">>, WARNING, M_UNUSED, RULE_UNUSED),
     Rec(P_SRCLAST, <<"4">>, <<"2">>, ERROR, M_UNUSED, RULE_UNUSED),
     Rec(P_SRCX, <<"5">>, <<"8">>, WARNING, M_ANY, RULE_ANY)}

\* a finding of a rule of the form plugin/rule-name
HookRec == Rec(P_FOO, <<"1", "7", "4">>, <<"6">>, WARNING, M_HOOK, RULE_HOOKS)

\* the first physical line of a wrapped finding: the rule is on a later line
WrapRec == Rec(P_FOO, <<"9">>, <<"9">>, WARNING, M_WRAP1, << >>)

\* the flat line of P_FOO with the path immediately followed by :line:column
L_EXAMPLE ==
    P_FOO \o <<":", "1", "2", ":", "3", " ", " ">> \o ERROR \o <<" ", " ">> \o M_ANY
    \o <<" ", " ">> \o RULE_ANY

\* lines the lint process may write when analyze-lint reads it
FlatCandidates ==
    {FlatLine(r) : r \in ScopedRecs}
    \cup {FlatLine(HookRec), L_EXAMPLE, strip(FlatLine(WrapRec)), L_CONT}

\* lines the lint process may write when analyze-lint2 reads it
BlockCandidates ==
    {P_FOO, P_NOSRC}
    \cup {BlockLine(r) : r \in {x \in ScopedRecs : x.file_path \in {P_FOO, P_NOSRC}}}
    \cup {BlockLine(HookRec), BlockLine(WrapRec), L_CONT}

Candidates(s) == IF s = 1 THEN FlatCandidates ELSE BlockCandidates

\* one finding of P_FOO as the lint process writes it for script s
StdoutUnit(s) ==
    LET r == Rec(P_FOO, <<"1", "2">>, <<"3">>, ERROR, M_ANY, RULE_ANY)
    IN  IF s = 1 THEN <<FlatLine(r)>> ELSE <<P_FOO, BlockLine(r)>>

RECURSIVE Repeat(_, _)
Repeat(ls, n) == IF n = 0 THEN << >> ELSE ls \o Repeat(ls, n - 1)

\* free-form runs: any short sequence of candidate lines on stderr with an
\* empty stdout, or up to MaxOut findings on stdout and at most one line on stderr
FreeRuns(s) ==
    {<< << >>, err>> : err \in SeqsUpTo(Candidates(s), MaxErr)}
    \cup {<<Repeat(StdoutUnit(s), k), err>> : k \in 1..MaxOut,
                                              err \in SeqsUpTo(Candidates(s), 1)}

\* multi-file runs: files F1..F<MaxFiles>, the first in directory d and the
\* others in components; a heavy file has MaxPerFile findings, another file
\* has one; everything on stderr
DigitName == <<"1", "2", "3", "4", "5", "6", "7", "8", "9">>

FilePath(d, k) ==
    P_FILES \o (IF k = 1 THEN d ELSE D_components) \o <<"/", "F", DigitName[k]>>

FileRec(d, k) ==
    IF k % 2 = 1
    THEN Rec(FilePath(d, k), <<"1">>, <<"1">>, ERROR, M_ANY, RULE_ANY)
    ELSE Rec(FilePath(d, k), <<"2">>, <<"2">>, WARNING, M_UNUSED, RULE_UNUSED)

RECURSIVE FileRun(_, _, _, _)
FileRun(s, d, counts, k) ==
    IF k > Len(counts) THEN << >>
    ELSE (IF s = 1 THEN Repeat(<<FlatLine(FileRec(d, k))>>, counts[k])
          ELSE <<FilePath(d, k)>> \o Repeat(<<BlockLine(FileRec(d, k))>>, counts[k]))
         \o FileRun(s, d, counts, k + 1)

FirstDirs == {D_api, D_auth, D_components}

FileRuns(s) ==
    {<< << >>, FileRun(s, d, [k \in 1..MaxFiles |-> IF k \in H THEN MaxPerFile ELSE 1], 1)>> :
        d \in FirstDirs, H \in {X \in SUBSET (1..MaxFiles) : Cardinality(X) <= MaxHeavy}}

Runs(s) == FreeRuns(s) \cup FileRuns(s)

\* every line a run can contain
AllLines ==
    {<< >>} \cup FlatCandidates \cup BlockCandidates
    \cup {FlatLine(FileRec(d, k)) : d \in FirstDirs, k \in 1..MaxFiles}
    \cup {BlockLine(FileRec(d, k)) : d \in FirstDirs, k \in 1..MaxFiles}
    \cup {FilePath(d, k) : d \in FirstDirs, k \in 1..MaxFiles}

\* match = re.match(error_pattern, line.strip()), tabulated over the lines
FlatMatch == [line \in AllLines |-> error_pattern(strip(line))]

\* match = re.match(r'^\s+(\d+):...$', line), tabulated over the lines
BlockMatch == [line \in AllLines |-> finding_pattern(line)]

\* ------------------------------------------------------------------- state
VARIABLES
    script,               \* 1: analyze-lint.py, 2: analyze-lint2.py
    pc,                   \* "run", "parse", "done"
    result,               \* subprocess.run(...): the text of stdout and stderr
    lines,                \* output.split('\n') / full_output.split('\n')
    i,                    \* index in lines of the next line of the for loop
    current_file,         \* << >> (None) or <<path>>; analyze-lint2 only
    errors_by_type,
    errors_by_file,
    errors_by_directory,
    total_errors,
    total_warnings,
    sorted_errors,
    top_errors,           \* the ranked rows, sorted_errors[:K]
    sorted_dirs,
    file_groups,
    shown_groups,         \* the rows of FILE GROUPS WITH MOST ERRORS
    fix_groups            \* the totals of the five fix-priority groups

vars ==
    <<script, pc, result, lines, i, current_file, errors_by_type, errors_by_file,
      errors_by_directory, total_errors, total_warnings, sorted_errors, top_errors,
      sorted_dirs, file_groups, shown_groups, fix_groups>>

aggregates ==
    <<errors_by_type, errors_by_file, errors_by_directory, total_errors, total_warnings>>

report == <<sorted_errors, top_errors, sorted_dirs, file_groups, shown_groups, fix_groups>>

NoGroups ==
    [any_errors |-> 0, unused_vars |-> 0, react_hooks_total |-> 0,
     react_refresh |-> 0, empty_interface |-> 0]

Init ==
    /\ script \in {1, 2}
    /\ pc = "run"
    /\ result = [stdout |-> << >>, stderr |-> << >>]
    /\ lines = << >>
    /\ i = 1
    /\ current_file = << >>
    /\ errors_by_type = << >>
    /\ errors_by_file = << >>
    /\ errors_by_directory = << >>
    /\ total_errors = 0
    /\ total_warnings = 0
    /\ sorted_errors = << >>
    /\ top_errors = << >>
    /\ sorted_dirs = << >>
    /\ file_groups = << >>
    /\ shown_groups = << >>
    /\ fix_groups = NoGroups

\* the text the script parses: stdout + stderr in analyze-lint, stderr in analyze-lint2
ParsedText(s, res) == IF s = 1 THEN res.stdout \o res.stderr ELSE res.stderr

\* subprocess.run(['npm', 'run', 'lint'], capture_output=True, text=True)
\* and the split of the parsed text into lines
RunLint ==
    /\ pc = "run"
    /\ \E run \in Runs(script) :
          /\ result' = [stdout |-> Text(run[1]), stderr |-> Text(run[2])]
          /\ lines' = SplitAt(ParsedText(script, result'), {"\n"})
    /\ pc' = "parse"
    /\ i' = 1
    /\ UNCHANGED <<script, current_file, aggregates, report>>

\* the aggregates after an accepted finding m of file
Accumulate(file, m) ==
    /\ errors_by_type' = CountByType(errors_by_type, m.rule)
    /\ errors_by_file' = StoreByFile(errors_by_file, file, Finding(m))
    /\ errors_by_directory' = CountByDirectory(errors_by_directory, file)
    /\ total_errors' = CountErrors(total_errors, m.severity)
    /\ total_warnings' = CountWarnings(total_warnings, m.severity)

\* one iteration of the for loop of analyze-lint.py
ParseFlat ==
    /\ pc = "parse"
    /\ script = 1
    /\ i <= Len(lines)
    /\ LET match == FlatMatch[lines[i]]
       IN  IF match.ok
           THEN Accumulate(match.file_path, match)
           ELSE UNCHANGED aggregates
    /\ i' = i + 1
    /\ UNCHANGED <<script, pc, result, lines, current_file, report>>

\* one iteration of the for loop of analyze-lint2.py
ParseBlock ==
    /\ pc = "parse"
    /\ script = 2
    /\ i <= Len(lines)
    /\ current_file' = NextCurrentFile(current_file, lines[i])
    /\ LET match == BlockMatch[lines[i]]
       IN  IF ~IsFileLine(lines[i]) /\ IsFindingLine(current_file, lines[i]) /\ match.ok
           THEN Accumulate(current_file[1], match)
           ELSE UNCHANGED aggregates
    /\ i' = i + 1
    /\ UNCHANGED <<script, pc, result, lines, report>>

\* the printing part of either script, after the loop
Report ==
    /\ pc = "parse"
    /\ i > Len(lines)
    /\ sorted_errors' = SortDesc(errors_by_type)
    /\ top_errors' = Take(sorted_errors', TopK(script))
    /\ sorted_dirs' = SortDesc(errors_by_directory)
    /\ file_groups' = FileGroups(errors_by_file)
    /\ shown_groups' = ShownGroups(AllowList(script), file_groups')
    /\ fix_groups' = FixGroups(errors_by_type)
    /\ pc' = "done"
    /\ UNCHANGED <<script, result, lines, i, current_file, aggregates>>

Next == RunLint \/ ParseFlat \/ ParseBlock \/ Report

Spec == Init /\ [][Next]_vars

\* ------------------------------------------------------ reading the input
\* the line starts with '/'
IsPathLine(line) == line # << >> /\ line[1] = "/"

\* index of the nearest line before j that starts with '/', 0 if there is none
NearestPathLine(ls, j) ==
    LET before == {k \in 1..(j - 1) : IsPathLine(ls[k])}
    IN  IF before = {} THEN 0 ELSE Max(before)

\* line j of ls is a finding for script s
AcceptedIn(s, ls, j) ==
    IF s = 1 THEN FlatMatch[ls[j]].ok
    ELSE /\ ~IsPathLine(ls[j])
         /\ NearestPathLine(ls, j) > 0
         /\ BlockMatch[ls[j]].ok

\* the fields of the finding of line j of ls
MatchIn(s, ls, j) == IF s = 1 THEN FlatMatch[ls[j]] ELSE BlockMatch[ls[j]]

\* the file the finding of line j of ls belongs to
FileIn(s, ls, j) ==
    IF s = 1 THEN FlatMatch[ls[j]].file_path ELSE strip(ls[NearestPathLine(ls, j)])

\* indices of the lines the loop has gone through
Processed == 1..(i - 1)

AcceptedSoFar == {j \in Processed : AcceptedIn(script, lines, j)}

RECURSIVE SumCounts(_)
SumCounts(d) == IF d = << >> THEN 0 ELSE Head(d)[2] + SumCounts(Tail(d))

\* the members of a set of indices, in increasing order
RECURSIVE Ascending(_)
Ascending(S) == IF S = {} THEN << >> ELSE <<Min(S)>> \o Ascending(S \ {Min(S)})

\* ------------------------------------------------------------------ claims
\* C1: in both scripts, after every prefix of the input, the sum of the
\* per-rule counts equals total_errors + total_warnings, which equals the
\* number of lines accepted as findings.
C1_CountsAgree ==
    /\ SumCounts(errors_by_type) = total_errors + total_warnings
    /\ total_errors + total_warnings = Cardinality(AcceptedSoFar)

\* C1 witness: the block script has finished an input with an error, a
\* warning, and a rule that occurred twice
C1_Witness ==
    /\ script = 2
    /\ pc = "done"
    /\ total_errors >= 1
    /\ total_warnings >= 1
    /\ \E k \in 1..Len(errors_by_type) : errors_by_type[k][2] >= 2

\* C2: in the block script every accepted finding line is stored under the
\* (stripped) nearest preceding line that starts with '/', in input order,
\* and while no such line has been read every aggregate is still empty.
C2_NearestFile ==
    script = 2 =>
        /\ Keys(errors_by_file) = {FileIn(2, lines, j) : j \in AcceptedSoFar}
        /\ \A f \in Keys(errors_by_file) :
              LET mine == Ascending({j \in AcceptedSoFar : FileIn(2, lines, j) = f})
              IN  Get(errors_by_file, f, << >>)
                    = [k \in 1..Len(mine) |-> Finding(BlockMatch[lines[mine[k]]])]
        /\ (\A j \in Processed : ~IsPathLine(lines[j])) =>
              /\ errors_by_type = << >>
              /\ errors_by_file = << >>
              /\ errors_by_directory = << >>
              /\ total_errors = 0
              /\ total_warnings = 0

\* C2 witness: a finding line came before any file line and was dropped, and
\* a later finding line was stored under the file line before it
C2_Witness ==
    /\ script = 2
    /\ pc = "done"
    /\ \E j \in Processed :
          /\ BlockMatch[lines[j]].ok
          /\ NearestPathLine(lines, j) = 0
    /\ \E j \in AcceptedSoFar : NearestPathLine(lines, j) > 0
    /\ total_errors + total_warnings = 1

\* first line of the input whose finding has the given rule
FirstOccurrence(rule) ==
    Min({j \in 1..Len(lines) : AcceptedIn(script, lines, j)
                                /\ MatchIn(script, lines, j).rule = rule})

\* C5: sorted_errors holds the rules by descending count, and of two rules
\* with equal counts the one that occurs first in the input comes first.
C5_StableRanking ==
    pc = "done" =>
        /\ Len(sorted_errors) = Len(errors_by_type)
        /\ \A k \in 1..Len(errors_by_type) :
              \E n \in 1..Len(sorted_errors) : sorted_errors[n] = errors_by_type[k]
        /\ \A a, b \in 1..Len(sorted_errors) :
              a < b =>
                 /\ sorted_errors[a][2] >= sorted_errors[b][2]
                 /\ sorted_errors[a][2] = sorted_errors[b][2] =>
                       FirstOccurrence(sorted_errors[a][1]) < FirstOccurrence(sorted_errors[b][1])

\* C5 witness: the report ranks at least two rules and the first two have
\* equal counts
C5_Witness ==
    /\ pc = "done"
    /\ Len(sorted_errors) >= 2
    /\ sorted_errors[1][2] = sorted_errors[2][2]

\* ------------------------------------------------------- one step of a loop
\* the loop is about to read line i
StepLine == pc = "parse" /\ i <= Len(lines)

\* the loop is about to read line i, and line i is a finding
StepAccepts == StepLine /\ AcceptedIn(script, lines, i)

StepFile == FileIn(script, lines, i)

StepMatch == MatchIn(script, lines, i)

\* the step adds the finding of line i to the totals, to its rule's count
\* and to the list of its file
StepCounted ==
    /\ total_errors' + total_warnings' = total_errors + total_warnings + 1
    /\ total_errors' = total_errors + (IF StepMatch.severity = ERROR THEN 1 ELSE 0)
    /\ Get(errors_by_type', StepMatch.rule, 0) = Get(errors_by_type, StepMatch.rule, 0) + 1
    /\ Get(errors_by_file', StepFile, << >>)
         = Append(Get(errors_by_file, StepFile, << >>), Finding(StepMatch))

HasSrc(path) == \E k \in 1..Len(PathParts(path)) : PathParts(path)[k] = SRC

SrcIsLast(path) ==
    /\ PathParts(path) # << >>
    /\ PathParts(path)[Len(PathParts(path))] = SRC

\* some segment follows the first 'src' segment of the path
SegmentAfterFirstSrc(path) ==
    LET parts == PathParts(path)
    IN  \E k \in 1..(Len(parts) - 1) :
           /\ parts[k] = SRC
           /\ \A h \in 1..(k - 1) : parts[h] # SRC

\* C6 as claimed: an accepted finding whose path has no 'src' segment, or has
\* 'src' as its last segment, changes no entry of errors_by_directory, and
\* is still added to the totals, its rule's count and its file's list.
C6_Original ==
    [][(StepAccepts /\ (~HasSrc(StepFile) \/ SrcIsLast(StepFile)))
          => (errors_by_directory' = errors_by_directory /\ StepCounted)]_vars

\* C6 as amended: an accepted finding whose path has no 'src' segment, or has
\* no segment after its first 'src' segment, changes no entry of
\* errors_by_directory, and is still added to the totals, its rule's count
\* and its file's list.
C6_NoDirectoryEntry ==
    [][(StepAccepts /\ ~SegmentAfterFirstSrc(StepFile))
          => (errors_by_directory' = errors_by_directory /\ StepCounted)]_vars

\* C6 witness: findings of a path without 'src' and of a path that ends in
\* 'src' have been counted and errors_by_directory is still empty
C6_Witness ==
    /\ script = 1
    /\ pc = "done"
    /\ P_NOSRC \in Keys(errors_by_file)
    /\ P_SRCLAST \in Keys(errors_by_file)
    /\ errors_by_directory = << >>
    /\ total_errors >= 1
    /\ total_warnings >= 1

IsToken(t) == t # << >>

\* the whitespace-separated tokens of a line
Tokens(line) == SelectSeq(SplitAt(line, Space), IsToken)

\* the line does not end with a token that starts with '@'
NoTrailingRule(line) ==
    \/ Tokens(line) = << >>
    \/ line[Len(line)] \in Space
    \/ Tokens(line)[Len(Tokens(line))][1] # "@"

\* the line starts neither with a path nor with a line number
Continuation(line) ==
    /\ Tokens(line) # << >>
    /\ Tokens(line)[1][1] \notin (Digit \cup {"/"})

\* the lines without a trailing rule, and the continuation lines
Unfinished == [line \in AllLines |-> NoTrailingRule(strip(line)) \/ Continuation(line)]

\* C7: a line that does not match the expected shape leaves every aggregate
\* and every report value unchanged; so does the first physical line of a
\* wrapped finding (no rule identifier at its end) and a continuation line.
C7_SilentSkip ==
    [][(StepLine /\ (~AcceptedIn(script, lines, i) \/ Unfinished[lines[i]]))
          => UNCHANGED <<aggregates, report>>]_vars

\* C7 witness: the block script has read a file line, the first line of a
\* wrapped finding and its continuation, and counted nothing
C7_Witness ==
    /\ script = 2
    /\ pc = "done"
    /\ current_file = <<P_FOO>>
    /\ \E j \in 1..(Len(lines) - 1) :
          /\ lines[j] = BlockLine(WrapRec)
          /\ lines[j + 1] = L_CONT
    /\ total_errors + total_warnings = 0
    /\ errors_by_file = << >>

\* C10: after the report, errors_by_directory and file_groups have the same
\* keys, each directory's count is the sum of the finding counts of its
\* files, and the directory counts sum to at most the number of findings,
\* with equality exactly when every finding's path has a segment after its
\* first 'src' segment.
C10_DirectoryTotals ==
    pc = "done" =>
        /\ Keys(errors_by_directory) = Keys(file_groups)
        /\ \A d \in Keys(errors_by_directory) :
              Get(errors_by_directory, d, 0) = SumCounts(Get(file_groups, d, << >>))
        /\ SumCounts(errors_by_directory) <= total_errors + total_warnings
        /\ (SumCounts(errors_by_directory) = total_errors + total_warnings)
              <=> (\A j \in AcceptedSoFar : SegmentAfterFirstSrc(FileIn(script, lines, j)))

\* C10 witness: a directory has a file with two findings, and a finding of a
\* path without 'src' keeps the directory counts below the total
C10_Witness ==
    /\ pc = "done"
    /\ \E k \in 1..Len(file_groups) :
          \E n \in 1..Len(file_groups[k][2]) : file_groups[k][2][n][2] >= 2
    /\ SumCounts(errors_by_directory) < total_errors + total_warnings

\* the directories of the per-directory section of script s
AllowedDirs(s) ==
    {D_components, D_lib, D_pages, D_utils, D_hooks} \cup (IF s = 2 THEN {D_auth} ELSE {})

\* the files of the aggregate whose directory key is d
FilesUnder(d) == {f \in Keys(errors_by_file) : DirectoryOf(f) = <<d>>}

CountOf(f) == Len(Get(errors_by_file, f, << >>))

\* C9: the per-directory section lists only directories of the allow-list
\* that have a file in the aggregate; for each it shows at most 5 distinct
\* files of that directory with their finding counts, by descending count,
\* and no omitted file of the directory has a larger count than a shown one.
C9_TopFiles ==
    pc = "done" =>
        \A g \in 1..Len(shown_groups) :
            LET d == shown_groups[g][1]
                files == shown_groups[g][2]
            IN  /\ d \in AllowedDirs(script)
                /\ FilesUnder(d) # {}
                /\ Len(files) <= 5
                /\ \A n \in 1..Len(files) :
                      /\ files[n][1] \in FilesUnder(d)
                      /\ files[n][2] = CountOf(files[n][1])
                /\ \A a, b \in 1..Len(files) :
                      a < b => (files[a][1] # files[b][1] /\ files[a][2] >= files[b][2])
                /\ \A f \in FilesUnder(d) :
                      (\A n \in 1..Len(files) : files[n][1] # f)
                         => \A n \in 1..Len(files) : CountOf(f) <= files[n][2]

\* C9 witness: a listed directory has more than 5 files, 5 are shown, a shown
\* file has more findings than an omitted one, and a directory outside the
\* allow-list has findings
C9_Witness ==
    /\ pc = "done"
    /\ \E g \in 1..Len(shown_groups) :
          /\ Len(shown_groups[g][2]) = 5
          /\ Cardinality(FilesUnder(shown_groups[g][1])) > 5
          /\ \E f \in FilesUnder(shown_groups[g][1]) :
                CountOf(f) < shown_groups[g][2][1][2]
    /\ \E k \in 1..Len(errors_by_directory) :
          /\ errors_by_directory[k][1] \notin AllowedDirs(script)
          /\ errors_by_directory[k][2] > 0

\* the finding of the example, with the path separated from 12:3 by a space
ExampleRec == Rec(P_FOO, <<"1", "2">>, <<"3">>, ERROR, M_ANY, RULE_ANY)

\* findings whose flat line is well formed: a whitespace-free absolute path,
\* a message without leading or trailing whitespace, an @scope/rule-name rule
WellFormedFlat == ScopedRecs \cup {FileRec(d, k) : d \in FirstDirs, k \in 1..MaxFiles}

\* the step stores exactly the finding r: its fields under its path, one
\* more of its severity and one more of its rule
Yields(r) ==
    /\ Get(errors_by_file', r.file_path, << >>)
         = Append(Get(errors_by_file, r.file_path, << >>),
                  [line |-> r.line, column |-> r.column, severity |-> r.severity,
                   message |-> r.message, rule |-> r.rule])
    /\ \A f \in Keys(errors_by_file') \ {r.file_path} :
          Get(errors_by_file', f, << >>) = Get(errors_by_file, f, << >>)
    /\ Get(errors_by_type', r.rule, 0) = Get(errors_by_type, r.rule, 0) + 1
    /\ total_errors' = total_errors + (IF r.severity = ERROR THEN 1 ELSE 0)
    /\ total_warnings' = total_warnings + (IF r.severity = WARNING THEN 1 ELSE 0)

\* the step counts one more finding under the directory key components
YieldsComponents ==
    Get(errors_by_directory', D_components, 0) = Get(errors_by_directory, D_components, 0) + 1

\* C4 as claimed: the flat parser turns the line of the example, with the
\* path immediately followed by :12:3, into one finding with rule
\* @typescript-eslint/no-explicit-any, severity error and directory key
\* components, and every well-formed flat line into exactly its substrings.
C4_Original ==
    [][(StepLine /\ script = 1)
          => /\ lines[i] = L_EXAMPLE => (Yields(ExampleRec) /\ YieldsComponents)
             /\ \A r \in WellFormedFlat : lines[i] = FlatLine(r) => Yields(r)]_vars

\* C4 as amended: the flat parser turns the line of the example written with
\* whitespace between the path and 12:3 into one finding with that rule,
\* severity error and directory key components; the line with the path
\* immediately followed by :12:3 yields no finding; every flat line made of
\* a whitespace-free absolute path, line:column, a severity, a message
\* without leading or trailing whitespace and an @scope/rule-name rule,
\* separated by whitespace, yields exactly those substrings.
C4_FlatFields ==
    [][(StepLine /\ script = 1)
          => /\ lines[i] = FlatLine(ExampleRec) => (Yields(ExampleRec) /\ YieldsComponents)
             /\ lines[i] = L_EXAMPLE => UNCHANGED aggregates
             /\ \A r \in WellFormedFlat : lines[i] = FlatLine(r) => Yields(r)]_vars

\* C4 witness: the flat script has read the example line written with a
\* space after the path, and holds its one finding
C4_Witness ==
    /\ script = 1
    /\ pc = "done"
    /\ lines = <<FlatLine(ExampleRec), << >> >>
    /\ errors_by_file = << <<P_FOO, <<Finding(ExampleRec)>> >> >>
    /\ errors_by_type = << <<RULE_ANY, 1>> >>
    /\ errors_by_directory = << <<D_components, 1>> >>
    /\ total_errors = 1
    /\ total_warnings = 0

\* well-formed finding lines of the input whose rule is react-hooks/exhaustive-deps
HookLines ==
    {j \in 1..Len(lines) :
        IF script = 1 THEN lines[j] = FlatLine(HookRec)
        ELSE lines[j] = BlockLine(HookRec) /\ NearestPathLine(lines, j) > 0}

\* C3: every well-formed finding line with a rule of the form
\* plugin/rule-name yields a finding with that rule, so the hook-family
\* group reports the number of input findings whose rule contains
\* 'react-hooks'.
C3_PluginRules ==
    pc = "done" =>
        /\ Get(errors_by_type, RULE_HOOKS, 0) = Cardinality(HookLines)
        /\ fix_groups.react_hooks_total = Cardinality(HookLines)

\* the findings of a stream, read on its own by script s
FindingsOf(s, text) ==
    LET ls == SplitAt(text, {"\n"})
    IN  Cardinality({j \in 1..Len(ls) : AcceptedIn(s, ls, j)})

\* C8: the findings the lint process wrote to stdout and those it wrote to
\* stderr are all counted in the report.
C8_BothStreams ==
    pc = "done" =>
        total_errors + total_warnings
           >= FindingsOf(script, result.stdout) + FindingsOf(script, result.stderr)

=============================================================================
